---- MODULE Spec2Model ----
(***************************************************************************)
(* Scheduler log analyzer: ReportGenerator.generate_report                 *)
(* (src/src/report_generator.py) and the pipeline of main (src/src/main.py)*)
(* as a state machine.                                                     *)
(*                                                                         *)
(* A CSV file is modelled by what pandas.read_csv makes of it: a file that *)
(* cannot be opened, a zero-byte file, a file that does not parse, or a    *)
(* table (the set of its columns and the sequence of its rows).  A frame   *)
(* obtained by filtering (df[mask]) is the ascending sequence of the row   *)
(* labels it keeps, as pandas keeps the labels of the original frame.      *)
(* Durations and task counts are integers; a quotient is kept exact as a   *)
(* pair <<numerator, denominator>> until it is formatted.  Ids are strings *)
(* (the Id column holds text).                                             *)
(***************************************************************************)
EXTENDS Integers, Sequences, FiniteSets, TLC

VARIABLES
    files,      \* the file system: path -> what read_csv makes of the file
    df,         \* ReportGenerator.df of the instance in use
    result,     \* what the last generate_report call returned
    lastPath,   \* the csv_path of the last generate_report call
    now,        \* the clock read by datetime.now()
    seen,       \* path -> what the first call on that path returned
    reads,      \* read_csv calls made by the last generate_report call
    task_analysis,  \* the locals scheduled_metrics and unscheduled_metrics
                    \* of the last generate_report call, once assigned
    pc,         \* where main is
    trace,      \* the stages main has run, each with its outcome
    export,     \* what the dashboard would export
    original_csv,   \* main's local: the downloaded path
    filtered_csv,   \* main's local: the filtered path
    analysis,   \* main's local: the report
    browser,    \* AWSLoginManager.browser: "none", "open" or "closed"
    context,    \* AWSLoginManager.context: "none", "open" or "closed"
    cleanups,   \* calls of AWSLoginManager.cleanup so far
    pdf_in,     \* the analysis the last PDFGenerator.generate_report was given
    pdf_out,    \* how that call ended: "True", "False" or "raised"
    pdf_built,  \* whether that call built the document
    pdf_sections    \* what _parse_sections returned in that call

apiVars ==
    <<files, df, result, lastPath, now, seen, reads, task_analysis>>
mainVars == <<pc, trace, export, original_csv, filtered_csv, analysis,
              browser, context, cleanups>>
pdfVars == <<pdf_in, pdf_out, pdf_built, pdf_sections>>
vars == <<apiVars, mainVars, pdfVars>>

---------------------------------------------------------------------------
(* Bounds of the model *)

MaxRows == 2        \* rows of a table in Spec
MaxIdRows == 7      \* rows of a table in SpecIds
MaxIdemRows == 1    \* rows of a table in SpecIdem
MaxClock == 1       \* the clock runs 0..MaxClock
MaxExportRows == 2  \* rows of the exported table in SpecMain
MaxPdfRows == 2     \* rows of a table in SpecPdf
MaxDurRows == 3     \* rows of a table in SpecDur

(* Program constants *)

IdLimit == 5        \* tolist()[:5]
InsightSlots == 6   \* insights[0] .. insights[5] in the report template

Completed == "schedulerLogCompleted"
Failed == "schedulerLogFailed"
Skipped == "schedulerLogSkipped"    \* a status that is neither marker
NA == "N/A"

Columns == {"Id", "Status", "Start Time", "Duration", "Total Tasks",
            "# Scheduled Tasks", "# Unscheduled Tasks"}

None == [kind |-> "None"]
NotCalled == [kind |-> "NotCalled"]
NoPath == ""        \* None where a path is expected

---------------------------------------------------------------------------
(* Helpers on sequences and quotients *)

Range(s) == {s[i] : i \in DOMAIN s}

RECURSIVE SumOver(_, _, _)
\* Series.sum() of column `col` over the frame `idx` of `rows`
SumOver(rows, idx, col) ==
    IF idx = <<>> THEN 0
    ELSE rows[Head(idx)][col] + SumOver(rows, Tail(idx), col)

\* Series.mean(): sum / count, exact
Mean(rows, idx, col) == <<SumOver(rows, idx, col), Len(idx)>>

\* Python's fixed-point formatting f"{q:.1f}" (scale 10) and f"{q:.2f}"
\* (scale 100) of q = num/den >= 0: the nearest multiple of 1/scale, a tie
\* going to the even one (the quotients of the model that tie are exact in
\* binary floating point).  The result is the number of 1/scale units.
Format(q, scale) ==
    LET n == q[1] * scale
        fl == n \div q[2]
        twice == 2 * (n % q[2])
    IN  IF twice > q[2] \/ (twice = q[2] /\ fl % 2 = 1) THEN fl + 1 ELSE fl

\* list[:k]
Prefix(s, k) == SubSeq(s, 1, IF Len(s) < k THEN Len(s) ELSE k)

\* one line of the report: "label" or "label: value"
Line(label, value) == [label |-> label, colon |-> TRUE, value |-> value]
Bare(label) == [label |-> label, colon |-> FALSE, value |-> <<>>]

---------------------------------------------------------------------------
(* generate_report: the frames *)

AllRows(rows) == [i \in 1..Len(rows) |-> i]

total_runs(rows) == Len(rows)

completed_df(rows) ==
    SelectSeq(AllRows(rows), LAMBDA i : rows[i]["Status"] = Completed)

completed_runs(rows) == Len(completed_df(rows))

SkippedOnlyUnmarked(rows) ==
    Len(SelectSeq(AllRows(rows),
                  LAMBDA i : rows[i]["Status"] \notin {Completed, Failed}))

skipped_runs(rows) == total_runs(rows) - completed_runs(rows)

df_filtered(rows) ==
    SelectSeq(AllRows(rows), LAMBDA i : rows[i]["Duration"] > 0)

IndividualAtLeastOne(rows) ==
    SelectSeq(completed_df(rows), LAMBDA i : rows[i]["Total Tasks"] >= 1)

batch_runs(rows) ==
    SelectSeq(completed_df(rows), LAMBDA i : rows[i]["Total Tasks"] > 1)

individual_runs(rows) ==
    SelectSeq(completed_df(rows), LAMBDA i : rows[i]["Total Tasks"] = 1)

batch_count(rows) == Len(batch_runs(rows))

IdxminLast(rows, idx) ==
    CHOOSE i \in Range(idx) :
        \A j \in Range(idx) :
            /\ rows[i]["Duration"] <= rows[j]["Duration"]
            /\ rows[j]["Duration"] = rows[i]["Duration"] => i >= j

\* Series.idxmin() / idxmax(): the label of the first occurrence of the extreme
idxmin(rows, idx) ==
    CHOOSE i \in Range(idx) :
        \A j \in Range(idx) :
            /\ rows[i]["Duration"] <= rows[j]["Duration"]
            /\ rows[j]["Duration"] = rows[i]["Duration"] => i <= j

idxmax(rows, idx) ==
    CHOOSE i \in Range(idx) :
        \A j \in Range(idx) :
            /\ rows[i]["Duration"] >= rows[j]["Duration"]
            /\ rows[j]["Duration"] = rows[i]["Duration"] => i <= j

BatchSentinel == [Duration |-> 0, Id |-> NA, Total |-> 0]

BatchRecord(r) ==
    [Duration |-> r["Duration"], Id |-> r["Id"], Total |-> r["Total Tasks"]]

avg_batch_duration(rows) ==
    IF batch_count(rows) > 0 THEN Mean(rows, batch_runs(rows), "Duration")
    ELSE <<0, 1>>

min_batch(rows) ==
    IF batch_count(rows) > 0
    THEN BatchRecord(rows[idxmin(rows, batch_runs(rows))])
    ELSE BatchSentinel

max_batch(rows) ==
    IF batch_count(rows) > 0
    THEN BatchRecord(rows[idxmax(rows, batch_runs(rows))])
    ELSE BatchSentinel

total_scheduled(rows) == SumOver(rows, completed_df(rows), "# Scheduled Tasks")

total_unscheduled(rows) ==
    SumOver(rows, completed_df(rows), "# Unscheduled Tasks")

total_tasks(rows) == total_scheduled(rows) + total_unscheduled(rows)

scheduled_df(rows) ==
    SelectSeq(df_filtered(rows), LAMBDA i : rows[i]["# Scheduled Tasks"] > 0)

unscheduled_df(rows) ==
    SelectSeq(df_filtered(rows), LAMBDA i : rows[i]["# Unscheduled Tasks"] > 0)

\* x.mean() if len(x) > 0 else 0
MeanOrZero(rows, idx, col) ==
    IF Len(idx) > 0 THEN Mean(rows, idx, col) ELSE <<0, 1>>

scheduled_metrics(rows) ==
    [total |-> total_scheduled(rows),
     avg_per_batch |->
         MeanOrZero(rows, scheduled_df(rows), "# Scheduled Tasks"),
     batches |-> Len(scheduled_df(rows)),
     avg_duration |-> MeanOrZero(rows, scheduled_df(rows), "Duration")]

unscheduled_metrics(rows) ==
    [total |-> total_unscheduled(rows),
     avg_per_batch |->
         MeanOrZero(rows, unscheduled_df(rows), "# Unscheduled Tasks"),
     batches |-> Len(unscheduled_df(rows)),
     avg_duration |-> MeanOrZero(rows, unscheduled_df(rows), "Duration")]

skipped_df(rows) ==
    SelectSeq(AllRows(rows), LAMBDA i : rows[i]["Status"] # Completed)

failed_df(rows) ==
    SelectSeq(AllRows(rows), LAMBDA i : rows[i]["Status"] = Failed)

IdsOf(rows, idx) == [k \in 1..Len(idx) |-> rows[idx[k]]["Id"]]

skipped_ids(rows) ==
    IF Len(skipped_df(rows)) > 0
    THEN Prefix(IdsOf(rows, skipped_df(rows)), IdLimit)
    ELSE <<NA>>

FailedIdsUncut(rows) ==
    IF Len(failed_df(rows)) > 0 THEN IdsOf(rows, failed_df(rows)) ELSE <<NA>>

failed_ids(rows) ==
    IF Len(failed_df(rows)) > 0
    THEN Prefix(IdsOf(rows, failed_df(rows)), IdLimit)
    ELSE <<NA>>

SameIdsUntruncated(rows) ==
    Range(IdsOf(rows, skipped_df(rows))) = Range(IdsOf(rows, failed_df(rows)))

same_ids(rows) == Range(skipped_ids(rows)) = Range(failed_ids(rows))

---------------------------------------------------------------------------
(* generate_report: the insights and the rendered report *)

scheduled_percent(rows) == <<total_scheduled(rows) * 100, total_tasks(rows)>>

unscheduled_percent(rows) == <<total_unscheduled(rows) * 100, total_tasks(rows)>>

CompletionRateOverSkipped(completed, total) ==
    IF total - completed > 0 THEN <<completed * 100, total - completed>>
    ELSE <<0, 1>>

completion_rate(completed, total) ==
    IF total > 0 THEN <<completed * 100, total>> ELSE <<0, 1>>

avg_tasks_per_run(rows) ==
    IF completed_runs(rows) > 0 THEN <<total_tasks(rows), completed_runs(rows)>>
    ELSE <<0, 1>>

\* The list `insights` after all its appends
insights(rows) ==
    LET ratio ==
            IF total_tasks(rows) > 0
            THEN <<Line("Scheduled vs Unscheduled Ratio",
                        <<Format(scheduled_percent(rows), 10),
                          Format(unscheduled_percent(rows), 10)>>)>>
            ELSE <<>>
        fixed ==
            <<Line("Run Completion Rate",
                   <<Format(completion_rate(completed_runs(rows),
                                            total_runs(rows)), 10)>>),
              Line("Average Tasks Per Run",
                   <<Format(avg_tasks_per_run(rows), 10)>>),
              Line("Average Run Duration",
                   <<Format(avg_batch_duration(rows), 100)>>)>>
        efficiency ==
            IF completed_runs(rows) > 0
            THEN <<Line("Avg Scheduled Tasks Per Run",
                        <<Format(<<total_scheduled(rows),
                                   completed_runs(rows)>>, 10)>>),
                   Line("Avg Unscheduled Tasks Per Run",
                        <<Format(<<total_unscheduled(rows),
                                   completed_runs(rows)>>, 10)>>)>>
            ELSE <<>>
    IN  ratio \o fixed \o efficiency

batch_summary(rows) ==
    LET common ==
            <<Bare("Batch Processing Summary"),
              Line("Total Batch Runs", <<batch_count(rows)>>),
              Line("Average Batch Duration",
                   <<Format(avg_batch_duration(rows), 100)>>),
              Line("Maximum Batch Size",
                   <<max_batch(rows).Total, max_batch(rows).Id>>),
              Line("Maximum Duration",
                   <<Format(<<max_batch(rows).Duration, 1>>, 100),
                     max_batch(rows).Id>>),
              Line("Minimum Duration",
                   <<Format(<<min_batch(rows).Duration, 1>>, 100),
                     min_batch(rows).Id>>)>>
    IN  IF same_ids(rows)
        THEN common \o <<Line("Problem IDs", Prefix(skipped_ids(rows), IdLimit))>>
        ELSE common \o <<Line("Skipped IDs", Prefix(skipped_ids(rows), IdLimit)),
                         Line("Failed IDs", Prefix(failed_ids(rows), IdLimit))>>

Title == "Scheduler Run Analysis Report"

\* The report template, one element per line of the string
report(rows, clock) ==
    <<Bare(Title),
      Line("Date", <<clock>>),
      Bare(""),
      Bare("Run Distribution Details"),
      Line("Total Runs", <<total_runs(rows)>>),
      Line("Completed Runs", <<completed_runs(rows)>>),
      Line("Skipped Runs", <<skipped_runs(rows)>>),
      Bare(""),
      Bare("Daily Insights")>>
    \o SubSeq(insights(rows), 1, InsightSlots)
    \o <<Bare("")>>
    \o batch_summary(rows)
    \o <<Bare("")>>

---------------------------------------------------------------------------
(* generate_report: reading, errors and the call *)

Raise(exc) == [exc |-> exc]
Return(v) == [exc |-> "none", value |-> v]

\* pd.read_csv(csv_path)
read_csv(file) ==
    CASE file.kind = "unreadable" -> Raise("FileNotFoundError")
      [] file.kind = "empty" -> Raise("EmptyDataError")
      [] file.kind = "garbled" -> Raise("ParserError")
      [] OTHER -> Return([kind |-> "DataFrame", columns |-> file.columns,
                          rows |-> file.rows])

\* The columns the computation subscripts, given the rows: Id is read only
\* for the ids of non-completed rows and for the extreme batch rows.
ColumnsRead(rows) ==
    {"Status", "Duration", "Total Tasks", "# Scheduled Tasks",
     "# Unscheduled Tasks"}
    \cup (IF Len(skipped_df(rows)) > 0 \/ batch_count(rows) > 0
          THEN {"Id"} ELSE {})

\* The columns subscripted up to the task analysis (lines 21-79): Id only
\* for the ids of non-completed rows
ColumnsReadByAnalysis(rows) ==
    {"Status", "Duration", "Total Tasks", "# Scheduled Tasks",
     "# Unscheduled Tasks"}
    \cup (IF Len(skipped_df(rows)) > 0 THEN {"Id"} ELSE {})

\* The locals scheduled_metrics and unscheduled_metrics, when the
\* computation gets as far as assigning them
TaskAnalysis(frame) ==
    IF Len(frame.rows) = 0 THEN NotCalled
    ELSE IF ~(ColumnsReadByAnalysis(frame.rows) \subseteq frame.columns)
    THEN NotCalled
    ELSE [kind |-> "locals",
          scheduled_metrics |-> scheduled_metrics(frame.rows),
          unscheduled_metrics |-> unscheduled_metrics(frame.rows)]

\* The body of the try block after the read, on the frame just loaded
Compute(frame, clock) ==
    IF Len(frame.rows) = 0 THEN Return(None)
    ELSE IF ~(ColumnsRead(frame.rows) \subseteq frame.columns)
    THEN Raise("KeyError")
    ELSE IF Len(insights(frame.rows)) < InsightSlots THEN Raise("IndexError")
    ELSE Return([kind |-> "dict", content |-> report(frame.rows, clock)])

EmptyReport == [kind |-> "dict", content |-> <<>>]

\* except pd.errors.EmptyDataError
OnEmptyDataError == None

\* except pd.errors.ParserError
OnParserError == None

\* except KeyError
OnKeyError == None

\* except Exception
OnOtherException == None

\* The except clauses, the first that matches
OnException(exc) ==
    CASE exc = "EmptyDataError" -> OnEmptyDataError
      [] exc = "ParserError" -> OnParserError
      [] exc = "KeyError" -> OnKeyError
      [] OTHER -> OnOtherException

LoadFrameCached(self_df, file) ==
    IF self_df # None THEN Return(self_df) ELSE read_csv(file)

\* self.df = pd.read_csv(csv_path): the frame the computation then uses
LoadFrame(self_df, file) == read_csv(file)

\* The file at a path; a path that names no file cannot be opened
FileAt(path) ==
    IF path \in DOMAIN files THEN files[path] ELSE [kind |-> "unreadable"]

\* The report without its Date line
Sections(res) ==
    IF res.kind = "dict"
    THEN [kind |-> "dict",
          content |-> SelectSeq(res.content, LAMBDA l : l.label # "Date")]
    ELSE res

\* ReportGenerator.generate_report(csv_path), as one step
generate_report(csv_path) ==
    LET loaded == LoadFrame(df, FileAt(csv_path))
        frame == IF loaded.exc = "none" THEN loaded.value ELSE df
        out == IF loaded.exc # "none" THEN OnException(loaded.exc)
               ELSE LET c == Compute(frame, now)
                    IN  IF c.exc # "none" THEN OnException(c.exc) ELSE c.value
    IN  /\ df' = frame
        /\ result' = out
        /\ lastPath' = csv_path
        /\ reads' = 1
        /\ task_analysis' = IF loaded.exc = "none" THEN TaskAnalysis(frame)
                            ELSE NotCalled
        /\ seen' = IF csv_path \in DOMAIN seen /\ seen[csv_path] = NotCalled
                   THEN [seen EXCEPT ![csv_path] = out]
                   ELSE seen

GenerateReport ==
    /\ \E p \in DOMAIN files : generate_report(p)
    /\ UNCHANGED <<files, now, mainVars, pdfVars>>

\* ReportGenerator(): a fresh instance replaces the one in use
NewInstance ==
    /\ df' = None
    /\ result' = NotCalled
    /\ lastPath' = "none"
    /\ reads' = 0
    /\ task_analysis' = NotCalled
    /\ UNCHANGED <<files, now, seen, mainVars, pdfVars>>

\* Time passes
Tick ==
    /\ now < MaxClock
    /\ now' = now + 1
    /\ UNCHANGED <<files, df, result, lastPath, seen, reads, task_analysis,
                   mainVars, pdfVars>>

Next == GenerateReport \/ NewInstance \/ Tick

---------------------------------------------------------------------------
(* PDFGenerator.generate_report *)

\* str.strip() of the line is empty
IsBlank(l) == ~l.colon /\ l.label = ""

\* line.startswith('Date:')
StartsWithDate(l) == l.colon /\ l.label = "Date"

IsHeaderIgnoringColon(l) == TRUE

\* not line.startswith(' ') and not ':' in line, of a stripped line
IsHeader(l) == ~l.colon

\* sections[key] = value on a dict that keeps the order of insertion
Put(dict, key, value) ==
    IF \E i \in DOMAIN dict : dict[i].name = key
    THEN [i \in DOMAIN dict |->
            IF dict[i].name = key THEN [name |-> key, content |-> value]
            ELSE dict[i]]
    ELSE Append(dict, [name |-> key, content |-> value])

\* if current_section: sections[current_section] = current_content
Flush(st) ==
    IF st.current_section # ""
    THEN [st EXCEPT !.sections = Put(st.sections, st.current_section,
                                     st.current_content)]
    ELSE st

\* One turn of the loop of _parse_sections
ParseLine(st, l) ==
    IF IsBlank(l) THEN st
    ELSE IF l = Bare(Title) THEN [st EXCEPT !.title = <<l>>]
    ELSE IF StartsWithDate(l) THEN [st EXCEPT !.date = <<l>>]
    ELSE IF IsHeader(l)
    THEN [Flush(st) EXCEPT !.current_section = l.label,
                           !.current_content = <<>>]
    ELSE [st EXCEPT !.current_content = Append(st.current_content, l)]

RECURSIVE ParseLines(_, _)
ParseLines(st, lines) ==
    IF lines = <<>> THEN st
    ELSE ParseLines(ParseLine(st, Head(lines)), Tail(lines))

\* PDFGenerator._parse_sections: title and date are <<>> while the key is
\* absent, the named sections are kept in the order of their insertion
parse_sections(lines) ==
    LET st == Flush(ParseLines([title |-> <<>>, date |-> <<>>, sections |-> <<>>,
                                current_section |-> "",
                                current_content |-> <<>>], lines))
    IN  [title |-> st.title, date |-> st.date, sections |-> st.sections]

\* not analysis or 'content' not in analysis
InvalidAnalysis(a) == a.kind # "dict" \/ "content" \notin DOMAIN a

\* The try block of PDFGenerator.generate_report; the document cannot be
\* built when build_ok is false
pdf_try(a, build_ok) ==
    IF InvalidAnalysis(a) THEN Raise("ValueError")
    ELSE IF parse_sections(a.content).title = <<>> THEN Raise("ValueError")
    ELSE IF parse_sections(a.content).date = <<>> THEN Raise("KeyError")
    ELSE IF ~build_ok THEN Raise("BuildError")
    ELSE Return("True")

PdfReraise(exc) == "raised"

\* except Exception: logs and returns False
OnPdfException(exc) == "False"

\* PDFGenerator.generate_report(analysis, output_path)
pdf_generate_report(a, build_ok) ==
    IF pdf_try(a, build_ok).exc = "none" THEN pdf_try(a, build_ok).value
    ELSE OnPdfException(pdf_try(a, build_ok).exc)

\* The call as a step: what it was given, how it ended, what it parsed
pdf_call(a, build_ok) ==
    /\ pdf_in' = a
    /\ pdf_out' = pdf_generate_report(a, build_ok)
    /\ pdf_built' = (pdf_try(a, build_ok).exc = "none")
    /\ pdf_sections' = IF InvalidAnalysis(a) THEN NotCalled
                       ELSE parse_sections(a.content)

\* Analyses no generate_report returns: an empty dict, a body without its
\* title line, a body without its Date line
Malformed ==
    {[kind |-> "dict"],
     [kind |-> "dict",
      content |-> <<Line("Date", <<0>>), Bare("Daily Insights"),
                    Line("Run Completion Rate", <<1000>>)>>],
     [kind |-> "dict",
      content |-> <<Bare(Title), Bare(""), Bare("Daily Insights"),
                    Line("Run Completion Rate", <<1000>>)>>]}

\* PDFGenerator.generate_report on what the last call returned or on a
\* malformed analysis
RenderPdf ==
    /\ \E a \in (IF lastPath # "none" THEN {result} ELSE {}) \cup Malformed,
          build_ok \in BOOLEAN : pdf_call(a, build_ok)
    /\ UNCHANGED <<apiVars, mainVars>>

NextPdf == GenerateReport \/ RenderPdf

---------------------------------------------------------------------------
(* main: the pipeline *)

Stages == <<"login", "download", "filter", "report", "pdf">>

Ran(stage, ok) == [stage |-> stage, ok |-> ok]

\* x.close() if x: None stays None; closing what is closed changes nothing
Close(x) == IF x = "none" THEN "none" ELSE "closed"

CloseContextOnly(handles) == [handles EXCEPT !.context = Close(@)]

\* The body of AWSLoginManager.cleanup on the two handles
CloseHandles(handles) ==
    [browser |-> Close(handles.browser), context |-> Close(handles.context)]

\* AWSLoginManager.cleanup: closes the context and the browser if there are any
cleanup ==
    LET closed == CloseHandles([browser |-> browser, context |-> context])
    IN  /\ context' = closed.context
        /\ browser' = closed.browser
        /\ cleanups' = cleanups + 1

\* What setup_browser and the rest of login leave in self.browser and
\* self.context: the launch may fail, new_context may fail, or both are up
\* when login succeeds or fails later
HandlesAt(outcome) ==
    [browser |-> IF outcome = "no browser" THEN "none" ELSE "open",
     context |-> IF outcome \in {"no browser", "no context"} THEN "none"
                 ELSE "open"]

\* DataProcessor.filter_todays_data: the table written to the filtered path,
\* or the exception that makes it return None
filter_todays_data(file) ==
    LET loaded == read_csv(file)
    IN  IF loaded.exc # "none" THEN loaded
        ELSE IF "Start Time" \notin loaded.value.columns THEN Raise("KeyError")
        ELSE IF \E i \in DOMAIN loaded.value.rows :
                    loaded.value.rows[i]["Start Time"] = "unparseable"
        THEN Raise("ValueError")
        ELSE Return([kind |-> "table", columns |-> loaded.value.columns,
                     rows |-> SelectSeq(loaded.value.rows,
                                        LAMBDA r : r["Start Time"] = "today")])

FilteredPath(path) == "filtered_" \o path

\* if not aws_login.login(): raise
AfterLogin(ok) == IF ok THEN "download" ELSE "except"

\* if not original_csv: raise
AfterDownload(path) == IF path = NoPath THEN "except" ELSE "filter"

\* if not filtered_csv: raise
AfterFilter(path) == IF path = NoPath THEN "except" ELSE "report"

AfterReportUnchecked(value) == "pdf"

\* if not analysis: raise
AfterReport(value) == IF value.kind # "dict" THEN "except" ELSE "pdf"

\* if not pdf_generator.generate_report(...): raise
AfterPdf(out) == IF out = "True" THEN "unlink" ELSE "except"

\* The components are constructed
Start ==
    /\ UNCHANGED pdfVars
    /\ pc = "start"
    /\ pc' = "login"
    /\ df' = None
    /\ browser' = "none"
    /\ context' = "none"
    /\ UNCHANGED <<files, result, lastPath, now, seen, reads, task_analysis,
                   trace, export,
                   original_csv, filtered_csv, analysis, cleanups>>

\* aws_login.login(): it may fail before or after the browser is up, and
\* calls cleanup itself when it fails
Login ==
    /\ UNCHANGED pdfVars
    /\ pc = "login"
    /\ \E outcome \in {"ok", "no browser", "no context", "failed"} :
        LET handles == IF outcome = "ok" THEN HandlesAt(outcome)
                       ELSE CloseHandles(HandlesAt(outcome))
        IN  /\ trace' = Append(trace, Ran("login", outcome = "ok"))
            /\ pc' = AfterLogin(outcome = "ok")
            /\ cleanups' = IF outcome = "ok" THEN cleanups ELSE cleanups + 1
            /\ browser' = handles.browser
            /\ context' = handles.context
    /\ UNCHANGED <<apiVars, export, original_csv, filtered_csv, analysis>>

\* aws_login.download_csv(""): the exported file lands at a path, or None
Download ==
    /\ UNCHANGED pdfVars
    /\ pc = "download"
    /\ \E ok \in BOOLEAN :
        /\ original_csv' = IF ok THEN "export.csv" ELSE NoPath
        /\ files' = IF ok THEN ("export.csv" :> export) @@ files ELSE files
        /\ trace' = Append(trace, Ran("download", ok))
        /\ pc' = AfterDownload(original_csv')
    /\ UNCHANGED <<df, result, lastPath, now, seen, reads, task_analysis,
                   export, filtered_csv,
                   analysis, browser, context, cleanups>>

\* data_processor.filter_todays_data(original_csv)
Filter ==
    /\ UNCHANGED pdfVars
    /\ pc = "filter"
    /\ LET out == filter_todays_data(FileAt(original_csv))
       IN  /\ filtered_csv' = IF out.exc = "none"
                              THEN FilteredPath(original_csv) ELSE NoPath
           /\ files' = IF out.exc = "none"
                       THEN (FilteredPath(original_csv) :> out.value) @@ files
                       ELSE files
           /\ trace' = Append(trace, Ran("filter", out.exc = "none"))
    /\ pc' = AfterFilter(filtered_csv')
    /\ UNCHANGED <<df, result, lastPath, now, seen, reads, task_analysis,
                   export, original_csv,
                   analysis, browser, context, cleanups>>

\* report_generator.generate_report(filtered_csv)
Report ==
    /\ UNCHANGED pdfVars
    /\ pc = "report"
    /\ generate_report(filtered_csv)
    /\ analysis' = result'
    /\ trace' = Append(trace, Ran("report", result'.kind = "dict"))
    /\ pc' = AfterReport(result')
    /\ UNCHANGED <<files, now, export, original_csv, filtered_csv, browser,
                   context, cleanups>>

\* The output directory is made and pdf_generator.generate_report is called;
\* making the directory may raise, and so may building the document
Pdf ==
    /\ pc = "pdf"
    /\ \E dir_ok \in BOOLEAN, build_ok \in BOOLEAN :
        IF dir_ok
        THEN /\ pdf_call(analysis, build_ok)
             /\ trace' = Append(trace, Ran("pdf", pdf_out' = "True"))
             /\ pc' = AfterPdf(pdf_out')
        ELSE /\ trace' = trace
             /\ pc' = "except"
             /\ UNCHANGED pdfVars
    /\ UNCHANGED <<apiVars, export, original_csv, filtered_csv, analysis,
                   browser, context, cleanups>>

\* The temporary files are removed
Unlink ==
    /\ UNCHANGED pdfVars
    /\ pc = "unlink"
    /\ files' = [p \in DOMAIN files \ {original_csv, filtered_csv} |-> files[p]]
    /\ pc' = "finally"
    /\ UNCHANGED <<df, result, lastPath, now, seen, reads, task_analysis,
                   trace, export,
                   original_csv, filtered_csv, analysis, browser, context,
                   cleanups>>

\* except Exception: the failure is logged
Except ==
    /\ UNCHANGED pdfVars
    /\ pc = "except"
    /\ pc' = "finally"
    /\ UNCHANGED <<apiVars, trace, export, original_csv, filtered_csv,
                   analysis, browser, context, cleanups>>

\* finally: aws_login.cleanup()
Finally ==
    /\ UNCHANGED pdfVars
    /\ pc = "finally"
    /\ cleanup
    /\ pc' = "done"
    /\ UNCHANGED <<apiVars, trace, export, original_csv, filtered_csv,
                   analysis>>

NextMain ==
    \/ Start \/ Login \/ Download \/ Filter \/ Report \/ Pdf
    \/ Unlink \/ Except \/ Finally

---------------------------------------------------------------------------
(* The inputs *)

Row(id, status, day, duration, total, scheduled, unscheduled) ==
    ("Id" :> id) @@ ("Status" :> status) @@ ("Start Time" :> day)
    @@ ("Duration" :> duration) @@ ("Total Tasks" :> total)
    @@ ("# Scheduled Tasks" :> scheduled)
    @@ ("# Unscheduled Tasks" :> unscheduled)

Table(columns, rows) == [kind |-> "table", columns |-> columns, rows |-> rows]

IdNames == <<"r1", "r2", "r3", "r4", "r5", "r6", "r7", "r8", "r9">>

\* Tables of up to n rows, the i-th row a shape with the i-th id
TablesOf(shapes, n) ==
    UNION {{Table(Columns, [i \in 1..k |-> [f[i] EXCEPT !["Id"] = IdNames[i]]]) :
                f \in [1..k -> shapes]} : k \in 0..n}

Faults == {[kind |-> "unreadable"], [kind |-> "empty"], [kind |-> "garbled"]}

\* One-row tables with one column absent
Incomplete ==
    {Table(Columns \ {c}, <<Row("r1", st, "today", 1, total, 1, 0)>>) :
        c \in Columns, st \in {Completed, Failed}, total \in {1, 2}}

RichShapes ==
    {Row("", st, "today", 1, total, s, u) :
        st \in {Completed, Failed}, total \in 0..2, s \in 0..1, u \in 0..1}

IdShapes ==
    {Row("", st, "today", 1, 2, 1, 1) : st \in {Completed, Failed, Skipped}}

IdemShapes ==
    {Row("", st, "today", 1, 2, s, 0) : st \in {Completed, Failed}, s \in 0..1}

DurShapes ==
    {Row("", st, "today", d, total, 1, 0) :
        st \in {Completed, Failed}, d \in 1..2, total \in 1..2}

PdfShapes ==
    {Row("", st, "today", 1, total, s, 0) :
        st \in {Completed, Failed, Skipped}, total \in 1..2, s \in 0..1}

ExportShapes ==
    {Row("", st, day, 1, 2, s, 0) :
        st \in {Completed, Failed}, day \in {"today", "earlier"}, s \in 0..1}
    \cup {Row("", Completed, "unparseable", 1, 2, 1, 0)}

Exports ==
    Faults \cup Incomplete \cup TablesOf(ExportShapes, MaxExportRows)

InitOver(fileSystems, exports) ==
    /\ files \in fileSystems
    /\ df = None
    /\ result = NotCalled
    /\ lastPath = "none"
    /\ now = 0
    /\ seen = [p \in DOMAIN files |-> NotCalled]
    /\ reads = 0
    /\ task_analysis = NotCalled
    /\ pc = "start"
    /\ trace = <<>>
    /\ export \in exports
    /\ original_csv = NoPath
    /\ filtered_csv = NoPath
    /\ analysis = NotCalled
    /\ browser = "none"
    /\ context = "none"
    /\ cleanups = 0
    /\ pdf_in = NotCalled
    /\ pdf_out = "NotCalled"
    /\ pdf_built = FALSE
    /\ pdf_sections = NotCalled

OneFile(contents) == {("a.csv" :> c) : c \in contents}

TwoFiles(contents) ==
    {("a.csv" :> c) @@ ("b.csv" :> d) : c \in contents, d \in contents}

NoExport == {[kind |-> "unreadable"]}

Init ==
    InitOver(OneFile(Faults \cup Incomplete \cup TablesOf(RichShapes, MaxRows)),
             NoExport)

InitIds == InitOver(OneFile(TablesOf(IdShapes, MaxIdRows)), NoExport)

InitIdem ==
    InitOver(TwoFiles(Faults \cup TablesOf(IdemShapes, MaxIdemRows)), NoExport)

InitMain == InitOver({<<>>}, Exports)

InitDur == InitOver(OneFile(TablesOf(DurShapes, MaxDurRows)), NoExport)

InitPdf ==
    InitOver(OneFile(Faults \cup TablesOf(PdfShapes, MaxPdfRows)), NoExport)

\* One ReportGenerator under any sequence of calls
Spec == Init /\ [][Next]_vars

\* The same, on tables long enough for the id lists to be cut
SpecIds == InitIds /\ [][Next]_vars

\* The same, with two files to call it on
SpecIdem == InitIdem /\ [][Next]_vars

\* One run of main on whatever the dashboard exports
SpecMain == InitMain /\ [][NextMain]_vars

\* The same calls on tables whose durations differ and tie
SpecDur == InitDur /\ [][Next]_vars

\* The same run, each stage ending: every wait in login and download_csv
\* has a timeout, and the other stages are loops over finite data
SpecMainFair == InitMain /\ [][NextMain]_vars /\ WF_vars(NextMain)

\* A ReportGenerator and a PDFGenerator, the second given what the first
\* returned or a malformed analysis
SpecPdf == InitPdf /\ [][NextPdf]_vars

---------------------------------------------------------------------------
(* What the claims speak of *)

\* The instance in use has been called; `result` is what the call returned
Called == lastPath # "none"

\* The file the last call was given
Input == FileAt(lastPath)

\* The last call was given a table with every column and at least one row
WellFormedInput ==
    /\ Called
    /\ Input.kind = "table"
    /\ Input.columns = Columns
    /\ Len(Input.rows) >= 1

Reported == Called /\ result.kind = "dict"

Count(content, label) ==
    Cardinality({i \in DOMAIN content :
                    content[i].label = label /\ content[i].colon})

ValueOf(content, label) ==
    content[CHOOSE i \in DOMAIN content :
                content[i].label = label /\ content[i].colon].value

HasValue(content, label, value) ==
    Count(content, label) = 1 /\ ValueOf(content, label) = value

RowsWith(rows, status) == {i \in DOMAIN rows : rows[i]["Status"] = status}

RowsWithout(rows, status) == {i \in DOMAIN rows : rows[i]["Status"] # status}

\* The ids of the first rows, at most `room`, whose status is wanted
RECURSIVE IdsKept(_, _, _)
IdsKept(rows, wanted, room) ==
    IF rows = <<>> \/ room = 0 THEN <<>>
    ELSE IF Head(rows)["Status"] \in wanted
    THEN <<Head(rows)["Id"]>> \o IdsKept(Tail(rows), wanted, room - 1)
    ELSE IdsKept(Tail(rows), wanted, room)

\* The same, at most IdLimit of them, or N/A when there is none
FirstIds(rows, wanted) ==
    IF IdsKept(rows, wanted, IdLimit) = <<>> THEN <<NA>>
    ELSE IdsKept(rows, wanted, IdLimit)

NotCompleted == {Failed, Skipped}

---------------------------------------------------------------------------
(* C1: a table with at least one record and no completed record still     *)
(* yields a report, with Completed Runs 0, Skipped Runs the total and     *)
(* every completed-dependent metric rendered as zero.  (The code returns *)
(* None for such a table: the template indexes insights it never added.)  *)
C1_NoCompletedStillReports ==
    (WellFormedInput /\ RowsWith(Input.rows, Completed) = {}) =>
        /\ result.kind = "dict"
        /\ HasValue(result.content, "Completed Runs", <<0>>)
        /\ HasValue(result.content, "Skipped Runs", <<Len(Input.rows)>>)
        /\ HasValue(result.content, "Scheduled vs Unscheduled Ratio", <<0, 0>>)
        /\ HasValue(result.content, "Run Completion Rate", <<0>>)
        /\ HasValue(result.content, "Average Tasks Per Run", <<0>>)
        /\ HasValue(result.content, "Average Run Duration", <<0>>)
        /\ HasValue(result.content, "Avg Scheduled Tasks Per Run", <<0>>)
        /\ HasValue(result.content, "Avg Unscheduled Tasks Per Run", <<0>>)
        /\ HasValue(result.content, "Total Batch Runs", <<0>>)

(* C2: a file with zero records, whether empty or header-only, yields no  *)
(* report: generate_report returns None.                                  *)
C2_ZeroRecordsNoReport ==
    (Called /\ (Input.kind = "empty"
                \/ (Input.kind = "table" /\ Len(Input.rows) = 0))) =>
        result = None

C2_Witness ==
    /\ Called
    /\ Input.kind = "empty"
    /\ result = None

(* C3: when the completed records carry tasks, the scheduled and the      *)
(* unscheduled percentage add up to 100; when they carry none, a report   *)
(* is still produced and shows both percentages as 0.  (The code returns *)
(* None in the second case, for the same reason as in C1.)                *)
C3_PercentagesSumOrZero ==
    WellFormedInput =>
        IF total_tasks(Input.rows) > 0
        THEN /\ result.kind = "dict"
             /\ scheduled_percent(Input.rows)[2] = unscheduled_percent(Input.rows)[2]
             /\ scheduled_percent(Input.rows)[1] + unscheduled_percent(Input.rows)[1]
                    = 100 * scheduled_percent(Input.rows)[2]
        ELSE /\ result.kind = "dict"
             /\ HasValue(result.content, "Scheduled vs Unscheduled Ratio", <<0, 0>>)

(* C4: in every report, Completed Runs is the number of records with the  *)
(* completed marker, Skipped Runs the number of all other records, failed *)
(* ones included, and the two add up to Total Runs, the number of records.*)
C4_CompletedPlusSkipped ==
    Reported =>
        LET rows == Input.rows
            completed == ValueOf(result.content, "Completed Runs")[1]
            skipped == ValueOf(result.content, "Skipped Runs")[1]
        IN  /\ HasValue(result.content, "Total Runs", <<Len(rows)>>)
            /\ completed = Cardinality(RowsWith(rows, Completed))
            /\ skipped = Cardinality(RowsWithout(rows, Completed))
            /\ completed + skipped = Len(rows)

C4_Witness ==
    /\ Reported
    /\ RowsWith(Input.rows, Failed) # {}
    /\ ValueOf(result.content, "Skipped Runs")[1] >= 1

(* C5: of the loaded table, the batch runs are the completed records with *)
(* Total Tasks > 1 and the individual runs those with Total Tasks = 1:    *)
(* disjoint, both within the completed records, a completed record with   *)
(* no task in neither, so their counts never add up to more than the      *)
(* completed count; when every record is a completed batch the batch      *)
(* count is the completed count and no run is individual.  A report shows *)
(* the batch count.                                                       *)
C5_BatchAndIndividual ==
    (df.kind = "DataFrame" /\ df.columns = Columns) =>
        LET rows == df.rows
            completed == RowsWith(rows, Completed)
            batch == Range(batch_runs(rows))
            individual == Range(individual_runs(rows))
        IN  /\ batch = {i \in completed : rows[i]["Total Tasks"] > 1}
            /\ individual = {i \in completed : rows[i]["Total Tasks"] = 1}
            /\ batch \cap individual = {}
            /\ batch \cup individual \subseteq completed
            /\ \A i \in completed :
                  rows[i]["Total Tasks"] = 0 => i \notin batch \cup individual
            /\ Len(batch_runs(rows)) + Len(individual_runs(rows))
                   <= Cardinality(completed)
            /\ (\A i \in DOMAIN rows :
                    i \in completed /\ rows[i]["Total Tasks"] > 1) =>
                   /\ Len(batch_runs(rows)) = Cardinality(completed)
                   /\ Len(individual_runs(rows)) = 0
            /\ Reported =>
                   HasValue(result.content, "Total Batch Runs",
                            <<Cardinality(batch)>>)

C5_Witness ==
    /\ Reported
    /\ \E i \in RowsWith(Input.rows, Completed) : Input.rows[i]["Total Tasks"] = 0
    /\ \E i \in RowsWith(Input.rows, Completed) : Input.rows[i]["Total Tasks"] > 1
    /\ HasValue(result.content, "Total Batch Runs", <<1>>)

(* C6: the completion rate, completed / total * 100, lies within 0 and    *)
(* 100 and is 0 for a table without records; a report shows it, rounded   *)
(* to one decimal.                                                        *)
C6_CompletionRateInRange ==
    /\ (df.kind = "DataFrame" /\ df.columns = Columns) =>
          LET rate == completion_rate(completed_runs(df.rows), total_runs(df.rows))
          IN  /\ rate[2] > 0
              /\ 0 <= rate[1]
              /\ rate[1] <= 100 * rate[2]
              /\ Len(df.rows) = 0 => rate[1] = 0
    /\ Reported =>
          LET shown == ValueOf(result.content, "Run Completion Rate")[1]
          IN  /\ shown \in 0..1000
              /\ shown = Format(<<100 * Cardinality(RowsWith(Input.rows, Completed)),
                                  Len(Input.rows)>>, 10)

C6_Witness ==
    /\ Reported
    /\ ValueOf(result.content, "Run Completion Rate")[1] \in 1..999

(* C7: in every report the Batch Processing Summary has one Problem IDs   *)
(* line and neither a Skipped IDs nor a Failed IDs line when the first    *)
(* five ids of the non-completed records (N/A if none) and the first five *)
(* ids of the failed records (N/A if none) are the same set, and one      *)
(* Skipped IDs line, one Failed IDs line and no Problem IDs line          *)
(* otherwise; when every non-completed record is failed the line is the   *)
(* combined one.                                                          *)
C7_ProblemIdsLine ==
    Reported =>
        LET rows == Input.rows
            skipped == FirstIds(rows, NotCompleted)
            failed == FirstIds(rows, {Failed})
            problems == Count(result.content, "Problem IDs")
            skips == Count(result.content, "Skipped IDs")
            fails == Count(result.content, "Failed IDs")
        IN  /\ IF Range(skipped) = Range(failed)
               THEN /\ problems = 1 /\ skips = 0 /\ fails = 0
                    /\ ValueOf(result.content, "Problem IDs") = skipped
               ELSE /\ problems = 0 /\ skips = 1 /\ fails = 1
                    /\ ValueOf(result.content, "Skipped IDs") = skipped
                    /\ ValueOf(result.content, "Failed IDs") = failed
            /\ RowsWith(rows, Skipped) = {} => problems = 1

C7_Witness ==
    /\ Reported
    /\ Cardinality(RowsWithout(Input.rows, Completed)) > IdLimit
    /\ RowsWith(Input.rows, Skipped) = {}
    /\ Count(result.content, "Problem IDs") = 1
    /\ Len(ValueOf(result.content, "Problem IDs")) = IdLimit

(* C8: what generate_report returns, the Date line aside, depends on the  *)
(* table alone: a call returns what the first call on that file returned, *)
(* whichever instance made it, whatever was called before and whenever;   *)
(* two files holding the same table give the same; and the frame the      *)
(* instance holds after the call is the table of the file, unchanged.     *)
C8_Deterministic ==
    /\ (Called /\ lastPath \in DOMAIN seen) =>
          /\ seen[lastPath] # NotCalled
          /\ Sections(result) = Sections(seen[lastPath])
    /\ \A p \in DOMAIN seen : \A q \in DOMAIN seen :
          (files[p] = files[q] /\ seen[p] # NotCalled /\ seen[q] # NotCalled) =>
              Sections(seen[p]) = Sections(seen[q])
    /\ (Called /\ Input.kind = "table") =>
          /\ df.kind = "DataFrame"
          /\ df.rows = Input.rows
          /\ df.columns = Input.columns

C8_Witness ==
    /\ Reported
    /\ seen[lastPath].kind = "dict"
    /\ ValueOf(seen[lastPath].content, "Date") # ValueOf(result.content, "Date")
    /\ \E q \in DOMAIN seen :
          q # lastPath /\ seen[q] # NotCalled /\ files[q] # files[lastPath]

(* C9: an error ends the call with None and nothing else: a file that     *)
(* cannot be read or parsed, an empty file, a table without records, a    *)
(* table lacking a column the computation reads.  What is returned is     *)
(* None or a whole report, never a part of one, and the file is read once.*)
WholeReport(content) ==
    /\ content[1] = Bare(Title)
    /\ Count(content, "Date") = 1
    /\ \A h \in {"Run Distribution Details", "Daily Insights",
                 "Batch Processing Summary"} :
          \E i \in DOMAIN content : content[i] = Bare(h)
    /\ \A l \in {"Total Runs", "Completed Runs", "Skipped Runs",
                 "Scheduled vs Unscheduled Ratio", "Run Completion Rate",
                 "Average Tasks Per Run", "Average Run Duration",
                 "Avg Scheduled Tasks Per Run", "Avg Unscheduled Tasks Per Run",
                 "Total Batch Runs", "Average Batch Duration",
                 "Maximum Batch Size", "Maximum Duration", "Minimum Duration"} :
          Count(content, l) = 1
    /\ Count(content, "Problem IDs") = 1
          \/ (Count(content, "Skipped IDs") = 1 /\ Count(content, "Failed IDs") = 1)

ColumnError(table) ==
    /\ Len(table.rows) >= 1
    /\ \/ {"Status", "Duration", "Total Tasks", "# Scheduled Tasks",
           "# Unscheduled Tasks"} \ table.columns # {}
       \/ /\ "Id" \notin table.columns
          /\ RowsWithout(table.rows, Completed) # {}

C9_ErrorsGiveNone ==
    Called =>
        /\ Input.kind \in {"unreadable", "garbled", "empty"} => result = None
        /\ (Input.kind = "table" /\ Len(Input.rows) = 0) => result = None
        /\ (Input.kind = "table" /\ ColumnError(Input)) => result = None
        /\ result = None \/ (result.kind = "dict" /\ WholeReport(result.content))
        /\ reads = 1

C9_Witness ==
    /\ Called
    /\ Input.kind = "table"
    /\ "Status" \notin Input.columns
    /\ Len(Input.rows) >= 1
    /\ result = None

(* C10: main runs its stages in the order login, download, filter,        *)
(* report, pdf, each at most once; a stage runs only when every earlier   *)
(* one has succeeded, and after a failed stage main runs no other.        *)
C10_StagesInOrder ==
    /\ Len(trace) <= Len(Stages)
    /\ \A i \in DOMAIN trace : trace[i].stage = Stages[i]
    /\ \A i \in DOMAIN trace : i < Len(trace) => trace[i].ok
    /\ (trace # <<>> /\ ~trace[Len(trace)].ok) =>
          pc \in {"except", "finally", "done"}

C10_Witness ==
    /\ pc = "done"
    /\ Len(trace) = 4
    /\ ~trace[4].ok

(* C11: PDFGenerator.generate_report always returns to its caller, with   *)
(* True or False: False when it is given None or a dict without content,  *)
(* a body without the title line or without a Date line, or when the      *)
(* document cannot be built; True only when the document was built.       *)
C11_PdfNeverRaises ==
    pdf_out # "NotCalled" =>
        /\ pdf_out \in {"True", "False"}
        /\ (pdf_in.kind # "dict" \/ "content" \notin DOMAIN pdf_in) =>
               pdf_out = "False"
        /\ (pdf_in.kind = "dict" /\ "content" \in DOMAIN pdf_in) =>
               /\ (~\E i \in DOMAIN pdf_in.content :
                        pdf_in.content[i] = Bare(Title)) => pdf_out = "False"
               /\ Count(pdf_in.content, "Date") = 0 => pdf_out = "False"
        /\ ~pdf_built => pdf_out = "False"
        /\ pdf_out = "True" => pdf_built

C11_Witness ==
    /\ pdf_out = "False"
    /\ pdf_in.kind = "dict"
    /\ "content" \in DOMAIN pdf_in
    /\ \E i \in DOMAIN pdf_in.content : pdf_in.content[i] = Bare(Title)
    /\ Count(pdf_in.content, "Date") = 0

(* C12: the scheduled (unscheduled) subset of the task analysis is the    *)
(* completed records with Duration > 0 and # Scheduled Tasks > 0          *)
(* (# Unscheduled Tasks > 0): a record that is not completed adds nothing *)
(* to the subset's record count, mean task count or mean duration, and a  *)
(* mean is 0 when the subset is empty.  (The code takes the subsets from  *)
(* every record with Duration > 0, completed or not.)                     *)
C12_AnalysisOverCompleted ==
    task_analysis # NotCalled =>
        LET rows == df.rows
            done == SelectSeq(AllRows(rows),
                        LAMBDA i : rows[i]["Status"] = Completed
                                   /\ rows[i]["Duration"] > 0)
            sched == SelectSeq(done, LAMBDA i : rows[i]["# Scheduled Tasks"] > 0)
            unsched ==
                SelectSeq(done, LAMBDA i : rows[i]["# Unscheduled Tasks"] > 0)
            SameMean(q, idx, col) ==
                IF idx = <<>> THEN q[1] = 0
                ELSE q[1] * Len(idx) = SumOver(rows, idx, col) * q[2]
            sm == task_analysis.scheduled_metrics
            um == task_analysis.unscheduled_metrics
        IN  /\ sm.batches = Len(sched)
            /\ SameMean(sm.avg_per_batch, sched, "# Scheduled Tasks")
            /\ SameMean(sm.avg_duration, sched, "Duration")
            /\ um.batches = Len(unsched)
            /\ SameMean(um.avg_per_batch, unsched, "# Unscheduled Tasks")
            /\ SameMean(um.avg_duration, unsched, "Duration")

(* C13: in every report, when some completed record has more than one     *)
(* task the Minimum Duration (Maximum Duration, Maximum Batch Size) line  *)
(* shows the batch record of least (greatest) Duration, the first in      *)
(* table order among those tied for it; when none has, the lines show the *)
(* sentinel (Duration 0, Id N/A, Total Tasks 0) and the Average Batch     *)
(* Duration is 0.                                                         *)
C13_ExtremeBatches ==
    Reported =>
        LET rows == Input.rows
            c == result.content
            batch == {i \in DOMAIN rows :
                         /\ rows[i]["Status"] = Completed
                         /\ rows[i]["Total Tasks"] > 1}
            Dur(i) == rows[i]["Duration"]
        IN  IF batch = {}
            THEN /\ HasValue(c, "Maximum Batch Size", <<0, NA>>)
                 /\ HasValue(c, "Maximum Duration", <<0, NA>>)
                 /\ HasValue(c, "Minimum Duration", <<0, NA>>)
                 /\ HasValue(c, "Average Batch Duration", <<0>>)
            ELSE \E lo \in batch, hi \in batch :
                    /\ \A j \in batch :
                          /\ j < lo => Dur(j) > Dur(lo)
                          /\ j > lo => Dur(j) >= Dur(lo)
                          /\ j < hi => Dur(j) < Dur(hi)
                          /\ j > hi => Dur(j) <= Dur(hi)
                    /\ HasValue(c, "Minimum Duration",
                                <<100 * Dur(lo), rows[lo]["Id"]>>)
                    /\ HasValue(c, "Maximum Duration",
                                <<100 * Dur(hi), rows[hi]["Id"]>>)
                    /\ HasValue(c, "Maximum Batch Size",
                                <<rows[hi]["Total Tasks"], rows[hi]["Id"]>>)

C13_Witness ==
    /\ Reported
    /\ Len(Input.rows) = 3
    /\ \A i \in 1..3 : /\ Input.rows[i]["Status"] = Completed
                       /\ Input.rows[i]["Total Tasks"] > 1
    /\ Input.rows[1]["Duration"] = 2
    /\ Input.rows[2]["Duration"] = 1
    /\ Input.rows[3]["Duration"] = 1
    /\ ValueOf(result.content, "Minimum Duration") = <<100, Input.rows[2]["Id"]>>

(* C14: of every report generate_report returns, _parse_sections recovers *)
(* the title line, the Date line and exactly the sections Run             *)
(* Distribution Details, Daily Insights and Batch Processing Summary, in  *)
(* that order, each holding the label: value lines rendered under it, in  *)
(* order, none lost and none taken for a header.                          *)
C14_ParseRoundTrip ==
    (pdf_sections # NotCalled /\ pdf_in \notin Malformed) =>
        LET c == pdf_in.content
            parsed == pdf_sections
        IN  /\ parsed.title = <<c[1]>> /\ c[1] = Bare(Title)
            /\ parsed.date = <<c[2]>> /\ c[2].label = "Date" /\ c[2].colon
            /\ Len(parsed.sections) = 3
            /\ c[4] = Bare("Run Distribution Details")
            /\ parsed.sections[1] =
                   [name |-> "Run Distribution Details",
                    content |-> SubSeq(c, 5, 7)]
            /\ c[9] = Bare("Daily Insights")
            /\ parsed.sections[2] =
                   [name |-> "Daily Insights", content |-> SubSeq(c, 10, 15)]
            /\ c[17] = Bare("Batch Processing Summary")
            /\ parsed.sections[3] =
                   [name |-> "Batch Processing Summary",
                    content |-> SubSeq(c, 18, Len(c) - 1)]
            /\ \A i \in DOMAIN c :
                  (c[i].colon /\ i # 2) =>
                      \E k \in 1..3 : \E j \in DOMAIN parsed.sections[k].content :
                          parsed.sections[k].content[j] = c[i]
            /\ Len(parsed.sections[1].content) + Len(parsed.sections[2].content)
                   + Len(parsed.sections[3].content)
                   = Cardinality({i \in DOMAIN c : c[i].colon}) - 1

C14_Witness ==
    /\ pdf_sections # NotCalled
    /\ pdf_in \notin Malformed
    /\ Len(pdf_sections.sections) = 3
    /\ Len(pdf_sections.sections[3].content) = 7
    /\ pdf_sections.sections[3].content[7].label = "Failed IDs"
    /\ pdf_out = "True"

(* C15: every run of main ends, and ends after at least one call of       *)
(* AWSLoginManager.cleanup, with neither the browser nor the context      *)
(* open, whichever stage failed; a call of cleanup leaves no handle open, *)
(* leaves a handle that was never opened as it was, and a call after the  *)
(* first (a failed login calls it, then main's finally) changes nothing.  *)
C15_CleanupAlways ==
    /\ <>(pc = "done")
    /\ [](pc = "done" =>
            /\ cleanups >= 1
            /\ browser \in {"none", "closed"}
            /\ context \in {"none", "closed"})
    /\ [][cleanups' > cleanups =>
            /\ browser' \in {"none", "closed"}
            /\ context' \in {"none", "closed"}
            /\ pc = "finally" =>
                   /\ browser = "none" => browser' = "none"
                   /\ context = "none" => context' = "none"
                   /\ cleanups >= 1 =>
                          (browser' = browser /\ context' = context)]_vars

C15_Witness ==
    /\ pc = "done"
    /\ cleanups = 2
    /\ browser = "closed"
    /\ context = "none"

(* C16: in every report on a table whose ids are pairwise distinct and    *)
(* none N/A, the Problem IDs line is rendered exactly when no record is   *)
(* non-completed, or each of the first five non-completed records in      *)
(* table order (all of them when there are fewer) is failed; with no      *)
(* non-completed record the line reads N/A.                               *)
C16_CombinedLineIff ==
    (/\ Reported
     /\ \A i, j \in DOMAIN Input.rows :
           /\ Input.rows[i]["Id"] # NA
           /\ i # j => Input.rows[i]["Id"] # Input.rows[j]["Id"]) =>
        LET rows == Input.rows
            open == RowsWithout(rows, Completed)
            leading ==
                {i \in open :
                    Cardinality({j \in open : j < i}) < IdLimit}
            combined == Count(result.content, "Problem IDs") = 1
        IN  /\ combined <=>
                  (open = {} \/ \A i \in leading : rows[i]["Status"] = Failed)
            /\ open = {} => HasValue(result.content, "Problem IDs", <<NA>>)

C16_Witness ==
    /\ Reported
    /\ Cardinality(RowsWithout(Input.rows, Completed)) > IdLimit
    /\ \E i \in RowsWith(Input.rows, Skipped) :
          /\ Cardinality({j \in RowsWithout(Input.rows, Completed) : j < i})
                 >= IdLimit
          /\ \A j \in RowsWithout(Input.rows, Completed) :
                 j < i => Input.rows[j]["Status"] = Failed
    /\ Count(result.content, "Problem IDs") = 1
    /\ Count(result.content, "Skipped IDs") = 0

====
